---- MODULE Spec2Model ----
(***************************************************************************)
(* Model of the MCP client pool (backend/services/mcp_client_pool.py), of  *)
(* the singleton client manager (backend/services/mcp_client_manager.py)   *)
(* and of the pipeline run MCPEnabledOrchestrator.execute_all              *)
(* (backend/services/strands_agents_simple.py).                            *)
(*                                                                         *)
(* Time is counted in ticks of 1/TicksPerSecond seconds.  Coroutines run   *)
(* on one asyncio event loop: the code between two suspension points is    *)
(* one action.  No asyncio.Lock of these classes is held across a          *)
(* suspension, so taking one never suspends and the locked sections are    *)
(* atomic.                                                                 *)
(*                                                                         *)
(* The specifications share the variables:                                 *)
(*   Spec        callers use MCPClientPool.acquire / release directly      *)
(*   SpecLive    Spec with the fairness of the clock and the event loop    *)
(*   SpecBorrow  borrowers use MCPPoolManager.get_pooled_client and the    *)
(*               PooledMCPClient context manager                           *)
(*   SpecRun     pipeline runs (execute_all) on the MCPClientManager       *)
(*   SpecPipeline  one pipeline run on its own                             *)
(*   SpecRegistry  requests to MCPPoolManager.get_pooled_client with any   *)
(*               server list: the registry of pools                        *)
(*   SpecLock    Spec with the creation of a client split into its start   *)
(*               and its end, and the lock of the pool made visible        *)
(*   SpecDigest  the digests made of a step output                         *)
(*   SpecSession the conversation history of SessionManager                *)
(*   SpecShutdown borrowers of one pool and MCPPoolManager.cleanup_all     *)
(***************************************************************************)
EXTENDS Integers, Sequences, FiniteSets, TLC

\* ---------------------------------------------------------------- bounds
NumProcs == 3
PoolSize == 2
MaxWait == 2
MaxTime == 3
MaxRequests == 4
TicksPerSecond == 20
NumRuns == 2
NumReqs == 2
MaxServers == 2
DefaultPoolSize == 1
MaxResources == 45
MaxNameLen == 40
MaxTexts == 16
MaxTextLen == 70
NumSessions == 2
MaxExchanges == 25

Procs == 1..NumProcs
Runs == 1..NumRuns
Reqs == 1..NumReqs

\* acquire(timeout=None)
NoTimeout == -1
\* the timeout arguments callers pass to acquire: None, 0, 50 ms
TimeoutArgs == {NoTimeout, 0, 1}
\* marks the re-entry of the while loop of acquire after asyncio.sleep
Retry == -2
\* NoHandle: no client (None); Foreign: a client object the pool never lent
NoHandle == 0
Foreign == -1
\* the server lists callers ask for, and ",".join(sorted(mcp_servers)) of
\* the one list the borrowers of SpecBorrow use
ServerLists == {"diagram", "knowledge"}
ServerKey == "diagram"

VARIABLES
    pool,            \* self.pool: deque of clients (identities), left = head
    in_use,          \* self.in_use: set of id(client)
    created_count,   \* self._created_count
    reused_count,    \* self._reused_count
    total_requests,  \* self._total_requests
    nextId,          \* identity of the next MCPClient object constructed
    entered,         \* clients whose context was entered (process started)
    exited,          \* clients whose context was exited (process killed)
    now,             \* asyncio.get_event_loop().time()
    pc,              \* per caller: where it is
    held,            \* per caller: the client its acquire returned
    acq,             \* per caller: the locals of its acquire call
    anyRelease,      \* history: release was called
    anyFail,         \* history: a client creation failed
    discarded,       \* history: clients a release with force_recreate dropped
    afterDiscard,    \* history: what acquire returned after such a release
    lastRel,         \* history: the last release into an empty pool and
                     \* the acquire that followed it
    pools,           \* MCPPoolManager.pools: the keys that have a pool
    has_config,      \* mode_servers.json has a configuration for the server
    released,        \* per borrower: PooledMCPClient._released
    relCalls,        \* per borrower: history, pool.release calls of its wrapper
    abandoned,       \* history: borrowers that dropped an un-entered wrapper
    usage_count,     \* MCPClientManager._usage_count
    mcp_client,      \* MCPClientManager._mcp_client (identity, NoHandle = None)
    active_servers,  \* MCPClientManager._active_servers
    mgrNextId,       \* identity of the next client the manager constructs
    runs,            \* per pipeline run: position and locals of execute_all
    registry,        \* MCPPoolManager.pools: server_key -> pool object
    poolObjs,        \* the MCPClientPool objects _create_pool constructed
    reqs,            \* per request: position and locals of get_pooled_client
    output,          \* the output of a step that is summarised
    digest,          \* the sizes of the digests made of the output
    lock,            \* the caller that holds MCPClientPool.lock
    sessions,        \* SessionManager.sessions, per session id
    cleaned          \* history: MCPPoolManager.cleanup_all has run

poolVars == <<pool, in_use, created_count, reused_count, total_requests,
              nextId, entered, exited>>
procVars == <<pc, held, acq>>
histVars == <<anyRelease, anyFail, discarded, afterDiscard, lastRel>>
borrowVars == <<pools, has_config, released, relCalls, abandoned>>
mgrVars == <<usage_count, mcp_client, active_servers, mgrNextId>>
regVars == <<registry, poolObjs, reqs>>
extVars == <<output, digest, lock, sessions, cleaned>>
vars == <<poolVars, now, procVars, histVars, borrowVars, mgrVars, runs,
          regVars, extVars>>

\* ------------------------------------------------------------- helpers
Min(a, b) == IF a <= b THEN a ELSE b

SeqSet(s) == {s[i] : i \in 1..Len(s)}

\* the client's process is running: entered and never exited
Connected(client) == client \in entered /\ client \notin exited

\* locals of a caller that is not inside acquire
NoAcq == [arg |-> NoTimeout, timeout |-> 0, start |-> 0, deadline |-> 0,
          wait_time |-> 0, wakeAt |-> 0, raisedAt |-> 0]

NoRel == [st |-> "none", h |-> NoHandle, created |-> 0, reused |-> 0,
          got |-> NoHandle, dcreated |-> 0, dreused |-> 0, live |-> FALSE,
          waiting |-> {}, by |-> 0]

\* a pipeline run that has not started
NoRun == [pc |-> "idle", servers |-> "", client |-> NoHandle,
          in_use |-> FALSE, context_entered |-> FALSE, wasEntered |-> FALSE,
          exits |-> 0, releases |-> 0, step |-> 0,
          diagram |-> FALSE, cost |-> FALSE, existing |-> FALSE,
          existing_diagram |-> FALSE,
          results |-> <<>>, written |-> <<>>, calls |-> <<>>,
          ctx |-> <<{}, {}, {}>>]

\* timeout = timeout or self.max_wait
EffectiveTimeout(t) == IF t = NoTimeout \/ t = 0 THEN MaxWait ELSE t

\* 0.1 s and 0.5 s in ticks
BackoffScale == TicksPerSecond \div 10
BackoffCap == TicksPerSecond \div 2

\* mutant of WaitTime: the wait is scaled by the time that is left
WaitTime_Remaining(elapsed, dl, t) ==
    Min((BackoffScale * (dl - elapsed)) \div t, BackoffCap)

\* wait_time = min(0.1 * (elapsed - (deadline - timeout)) / timeout, 0.5)
WaitTime(elapsed, dl, t) ==
    Min((BackoffScale * (elapsed - (dl - t))) \div t, BackoffCap)

\* ---------------------------------------------------------------- Init
InitPool ==
    /\ pool = <<>>
    /\ in_use = {}
    /\ created_count = 0
    /\ reused_count = 0
    /\ total_requests = 0
    /\ nextId = 1
    /\ entered = {}
    /\ exited = {}
    /\ now = 0
    /\ pc = [p \in Procs |-> "idle"]
    /\ held = [p \in Procs |-> NoHandle]
    /\ acq = [p \in Procs |-> NoAcq]
    /\ anyRelease = FALSE
    /\ anyFail = FALSE
    /\ discarded = {}
    /\ afterDiscard = "none"
    /\ lastRel = NoRel

InitRegistry ==
    /\ pools = {}
    /\ released = [p \in Procs |-> FALSE]
    /\ relCalls = [p \in Procs |-> 0]
    /\ abandoned = {}

InitManager ==
    /\ usage_count = 0
    /\ mcp_client = NoHandle
    /\ active_servers = ""
    /\ mgrNextId = 1
    /\ runs = [r \in Runs |-> NoRun]

\* a request that has not called get_pooled_client
NoReq == [pc |-> "idle", servers |-> <<>>, key |-> <<>>, pool |-> 0,
          client |-> 0, first |-> FALSE]

InitRequests ==
    /\ registry = <<>>
    /\ poolObjs = <<>>
    /\ reqs = [q \in Reqs |-> NoReq]

\* no output has been summarised
NoOutput == [kind |-> "none", count |-> 0, len |-> 0]

\* self.lock is free
Unlocked == 0

\* the session ids create_session hands out
SessionIds == 1..NumSessions

\* a session id that is not in self.sessions; added counts the calls of
\* add_to_conversation_history that were made on the session, returned is
\* what the last call about the id returned
NoSession == [present |-> FALSE, conversation_history |-> <<>>,
              added |-> 0, returned |-> "no call"]

InitExt ==
    /\ output = NoOutput
    /\ digest = <<>>
    /\ lock = Unlocked
    /\ sessions = [id \in SessionIds |-> NoSession]
    /\ cleaned = FALSE

Init ==
    /\ InitPool
    /\ InitRegistry
    /\ has_config = TRUE
    /\ InitManager
    /\ InitRequests
    /\ InitExt

\* ------------------------------------------------------------- acquire
\* A new call of acquire with timeout argument t, or (t = Retry) the wake-up
\* from asyncio.sleep that re-enters the while loop.
AcquireEntry(p, t) ==
    IF t = Retry
    THEN /\ pc[p] = "sleeping"
         /\ now >= acq[p].wakeAt
         /\ UNCHANGED total_requests
    ELSE /\ pc[p] = "idle"
         /\ total_requests < MaxRequests
         /\ now + EffectiveTimeout(t) < MaxTime
         /\ total_requests' = total_requests + 1

\* mutant of Locals: every retry moves the deadline
Locals_ResetDeadline(p, t) ==
    IF t = Retry
    THEN [acq[p] EXCEPT !.deadline = now + acq[p].timeout]
    ELSE [NoAcq EXCEPT !.arg = t,
                       !.timeout = EffectiveTimeout(t),
                       !.start = now,
                       !.deadline = now + EffectiveTimeout(t)]

\* lines 54-55: the locals timeout and deadline, computed once at entry
Locals(p, t) ==
    IF t = Retry
    THEN acq[p]
    ELSE [NoAcq EXCEPT !.arg = t,
                       !.timeout = EffectiveTimeout(t),
                       !.start = now,
                       !.deadline = now + EffectiveTimeout(t)]

\* history: the acquire that follows a release into an empty pool
Reacquired(client) ==
    IF lastRel.st = "released"
    THEN [lastRel EXCEPT !.st = "reacquired",
                         !.got = client,
                         !.dcreated = created_count' - lastRel.created,
                         !.dreused = reused_count' - lastRel.reused,
                         !.live = (lastRel.h \in entered' /\ lastRel.h \notin exited'),
                         !.by = CHOOSE p \in Procs :
                                    held'[p] = client /\ held[p] # client]
    ELSE lastRel

\* history: an acquire that returns a client after a forced release
AfterDiscard(client) ==
    IF discarded = {} THEN afterDiscard
    ELSE IF client \in discarded THEN "same" ELSE "fresh"

\* mutant of PopLeft: the client released last is handed out
PopLeft_Newest(q) == q[Len(q)]

\* line 62: client = self.pool.popleft()
PopLeft(q) == Head(q)

AfterPopLeft(q) == Tail(q)

\* lines 61-72: a client is available, reuse it
AcquireReuse(p, t) ==
    /\ AcquireEntry(p, t)
    /\ Len(pool) > 0
    /\ LET client == PopLeft(pool) IN
        /\ pool' = AfterPopLeft(pool)
        /\ in_use' = in_use \cup {client}
        /\ reused_count' = reused_count + 1
        /\ held' = [held EXCEPT ![p] = client]
        /\ UNCHANGED <<created_count, nextId, entered, exited>>
        /\ lastRel' = Reacquired(client)
        /\ afterDiscard' = AfterDiscard(client)
    /\ pc' = [pc EXCEPT ![p] = "holding"]
    /\ acq' = [acq EXCEPT ![p] = NoAcq]
    /\ UNCHANGED <<now, anyRelease, anyFail, discarded>>

\* mutant of CanCreate: the capacity check is missing
CanCreate_Unbounded == TRUE

\* mutant of CanCreate: off by one
CanCreate_OffByOne == created_count <= PoolSize

\* line 75: if self._created_count < self.pool_size
CanCreate == created_count < PoolSize

\* lines 75-87: no client available, room to create one, creation succeeds
AcquireCreate(p, t) ==
    /\ AcquireEntry(p, t)
    /\ Len(pool) = 0
    /\ CanCreate
    /\ LET client == nextId IN
        /\ nextId' = nextId + 1
        /\ entered' = entered \cup {client}
        /\ created_count' = created_count + 1
        /\ in_use' = in_use \cup {client}
        /\ held' = [held EXCEPT ![p] = client]
        /\ UNCHANGED <<pool, reused_count, exited>>
        /\ lastRel' = Reacquired(client)
        /\ afterDiscard' = AfterDiscard(client)
    /\ pc' = [pc EXCEPT ![p] = "holding"]
    /\ acq' = [acq EXCEPT ![p] = NoAcq]
    /\ UNCHANGED <<now, anyRelease, anyFail, discarded>>

\* mutant of AcquireCreateFail: the client is counted before it is
\* created and entered
AcquireCreateFail_Counted(p, t) ==
    /\ AcquireEntry(p, t)
    /\ Len(pool) = 0
    /\ CanCreate
    /\ created_count' = created_count + 1
    /\ pc' = [pc EXCEPT ![p] = "failed"]
    /\ acq' = [acq EXCEPT ![p] = NoAcq]
    /\ anyFail' = TRUE
    /\ UNCHANGED <<pool, in_use, reused_count, nextId,
                   entered, exited, now, held, anyRelease, discarded,
                   afterDiscard, lastRel>>

\* lines 76-90: create_client or client.__enter__ raises; acquire re-raises
AcquireCreateFail(p, t) ==
    /\ AcquireEntry(p, t)
    /\ Len(pool) = 0
    /\ CanCreate
    /\ pc' = [pc EXCEPT ![p] = "failed"]
    /\ acq' = [acq EXCEPT ![p] = NoAcq]
    /\ anyFail' = TRUE
    /\ UNCHANGED <<pool, in_use, created_count, reused_count, nextId,
                   entered, exited, now, held, anyRelease, discarded,
                   afterDiscard, lastRel>>

\* line 94: if elapsed > deadline
Expired(elapsed, dl) == elapsed > dl

\* lines 93-99: nothing available, pool at capacity, deadline passed
AcquireTimeout(p, t) ==
    /\ AcquireEntry(p, t)
    /\ Len(pool) = 0
    /\ ~CanCreate
    /\ Expired(now, Locals(p, t).deadline)
    /\ pc' = [pc EXCEPT ![p] = "timedout"]
    /\ acq' = [acq EXCEPT ![p] = [Locals(p, t) EXCEPT !.raisedAt = now]]
    /\ UNCHANGED <<pool, in_use, created_count, reused_count, nextId,
                   entered, exited, now, held, histVars>>

\* lines 93-103: nothing available, pool at capacity, deadline not passed
AcquireWait(p, t) ==
    /\ AcquireEntry(p, t)
    /\ Len(pool) = 0
    /\ ~CanCreate
    /\ ~Expired(now, Locals(p, t).deadline)
    /\ LET l == Locals(p, t)
           w == WaitTime(now, l.deadline, l.timeout)
       IN acq' = [acq EXCEPT ![p] = [l EXCEPT !.wait_time = w,
                                              !.wakeAt = now + w]]
    /\ pc' = [pc EXCEPT ![p] = "sleeping"]
    /\ UNCHANGED <<pool, in_use, created_count, reused_count, nextId,
                   entered, exited, now, held, histVars>>

\* the caller handles the exception that acquire (or get_pooled_client) raised
AcquireRaised(p) ==
    /\ pc[p] \in {"timedout", "failed"}
    /\ pc' = [pc EXCEPT ![p] = "idle"]
    /\ acq' = [acq EXCEPT ![p] = NoAcq]
    /\ UNCHANGED <<poolVars, now, held, histVars>>

\* ------------------------------------------------------------- release
\* mutant of NotInUse: the membership check is missing
NotInUse_NoCheck(client) == FALSE

\* line 115: if client_id not in self.in_use
NotInUse(client) == client \notin in_use

\* mutant of ReleaseIgnored: the client is put back although it is not in
\* use
ReleaseIgnored_Requeue(client) ==
    /\ NotInUse(client)
    /\ pool' = Append(pool, client)
    /\ anyRelease' = TRUE
    /\ UNCHANGED <<in_use, created_count, reused_count, total_requests,
                   nextId, entered, exited, anyFail, discarded, afterDiscard,
                   lastRel>>

\* lines 113-117: the client is not in use: warn and return
ReleaseIgnored(client) ==
    /\ NotInUse(client)
    /\ anyRelease' = TRUE
    /\ UNCHANGED <<poolVars, anyFail, discarded, afterDiscard, lastRel>>

\* mutant of ReleaseDiscard: the return of line 128 is missing, the exited
\* client is put back
ReleaseDiscard_Requeue(client) ==
    /\ ~NotInUse(client)
    /\ in_use' = in_use \ {client}
    /\ exited' = exited \cup {client}
    /\ discarded' = discarded \cup {client}
    /\ pool' = Append(pool, client)
    /\ anyRelease' = TRUE
    /\ UNCHANGED <<created_count, reused_count, total_requests,
                   nextId, entered, anyFail, afterDiscard, lastRel>>

\* lines 119-128: force_recreate: exit the client, do not put it back
ReleaseDiscard(client) ==
    /\ ~NotInUse(client)
    /\ in_use' = in_use \ {client}
    /\ exited' = exited \cup {client}
    /\ discarded' = discarded \cup {client}
    /\ anyRelease' = TRUE
    /\ UNCHANGED <<pool, created_count, reused_count, total_requests,
                   nextId, entered, anyFail, afterDiscard, lastRel>>

\* history: a release that puts a client into an empty pool
Released(client) ==
    IF Len(pool) = 0
    THEN [NoRel EXCEPT !.st = "released", !.h = client,
                       !.created = created_count, !.reused = reused_count,
                       !.waiting = {p \in Procs : /\ pc[p] = "sleeping"
                                                  /\ now <= acq[p].deadline}]
    ELSE lastRel

\* mutant of ReleaseReturn: the client is exited before it is put back
ReleaseReturn_Exit(client) ==
    /\ ~NotInUse(client)
    /\ in_use' = in_use \ {client}
    /\ exited' = exited \cup {client}
    /\ pool' = Append(pool, client)
    /\ lastRel' = Released(client)
    /\ anyRelease' = TRUE
    /\ UNCHANGED <<created_count, reused_count, total_requests, nextId,
                   entered, anyFail, discarded, afterDiscard>>

\* lines 119, 130-140: put the client back, still entered
ReleaseReturn(client) ==
    /\ ~NotInUse(client)
    /\ in_use' = in_use \ {client}
    /\ pool' = Append(pool, client)
    /\ lastRel' = Released(client)
    /\ anyRelease' = TRUE
    /\ UNCHANGED <<created_count, reused_count, total_requests, nextId,
                   entered, exited, anyFail, discarded, afterDiscard>>

\* lines 105-146: release(client, force_recreate)
Release(client, force_recreate) ==
    \/ ReleaseIgnored(client)
    \/ force_recreate /\ ReleaseDiscard(client)
    \/ ~force_recreate /\ ReleaseReturn(client)

\* the clients a caller can pass to release: the one it holds, one the pool
\* handed out earlier (a second release), or one the pool never lent
Releasable == (1..(nextId - 1)) \cup {Foreign}

\* a caller that is not inside acquire calls release(client, ...); after
\* releasing the client it holds it holds none
ReleaseEntry(p, client) ==
    /\ pc[p] \in {"idle", "holding"}
    /\ IF client = held[p]
       THEN /\ pc' = [pc EXCEPT ![p] = "idle"]
            /\ held' = [held EXCEPT ![p] = NoHandle]
       ELSE UNCHANGED <<pc, held>>
    /\ UNCHANGED <<now, acq>>

ReleaseNotInUse(p) ==
    \E client \in Releasable, force_recreate \in BOOLEAN :
        /\ ReleaseEntry(p, client)
        /\ NotInUse(client)
        /\ Release(client, force_recreate)

ReleaseForce(p) ==
    \E client \in Releasable :
        /\ ReleaseEntry(p, client)
        /\ ~NotInUse(client)
        /\ Release(client, TRUE)

ReleaseReuse(p) ==
    \E client \in Releasable :
        /\ ReleaseEntry(p, client)
        /\ ~NotInUse(client)
        /\ Release(client, FALSE)

\* ---------------------------------------------------------------- time
\* the loop clock advances; it keeps running while a sleeper is due later
Tick ==
    /\ \/ now < MaxTime
       \/ \E p \in Procs : pc[p] = "sleeping" /\ acq[p].wakeAt > now
    /\ now' = now + 1
    /\ UNCHANGED <<poolVars, procVars, histVars>>

\* every timeout argument, and the retry of a waiting call
AcquireArgs == TimeoutArgs \cup {Retry}

Next ==
    \/ \E p \in Procs, t \in AcquireArgs :
           AcquireReuse(p, t) /\ UNCHANGED <<borrowVars, mgrVars, runs, regVars, extVars>>
    \/ \E p \in Procs, t \in AcquireArgs :
           AcquireCreate(p, t) /\ UNCHANGED <<borrowVars, mgrVars, runs, regVars, extVars>>
    \/ \E p \in Procs, t \in AcquireArgs :
           AcquireCreateFail(p, t) /\ UNCHANGED <<borrowVars, mgrVars, runs, regVars, extVars>>
    \/ \E p \in Procs, t \in AcquireArgs :
           AcquireTimeout(p, t) /\ UNCHANGED <<borrowVars, mgrVars, runs, regVars, extVars>>
    \/ \E p \in Procs, t \in AcquireArgs :
           AcquireWait(p, t) /\ UNCHANGED <<borrowVars, mgrVars, runs, regVars, extVars>>
    \/ \E p \in Procs :
           AcquireRaised(p) /\ UNCHANGED <<borrowVars, mgrVars, runs, regVars, extVars>>
    \/ \E p \in Procs :
           ReleaseNotInUse(p) /\ UNCHANGED <<borrowVars, mgrVars, runs, regVars, extVars>>
    \/ \E p \in Procs :
           ReleaseForce(p) /\ UNCHANGED <<borrowVars, mgrVars, runs, regVars, extVars>>
    \/ \E p \in Procs :
           ReleaseReuse(p) /\ UNCHANGED <<borrowVars, mgrVars, runs, regVars, extVars>>
    \/ Tick /\ UNCHANGED <<borrowVars, mgrVars, runs, regVars, extVars>>

Spec == Init /\ [][Next]_vars

\* a caller whose asyncio.sleep has ended runs the next iteration of the loop
AcquireWake(p) ==
    /\ \/ AcquireReuse(p, Retry)
       \/ AcquireCreate(p, Retry)
       \/ AcquireCreateFail(p, Retry)
       \/ AcquireTimeout(p, Retry)
       \/ AcquireWait(p, Retry)
    /\ UNCHANGED <<borrowVars, mgrVars, runs, regVars, extVars>>

\* the clock advances and the event loop resumes a coroutine that is ready
Fairness ==
    /\ WF_vars(Tick /\ UNCHANGED <<borrowVars, mgrVars, runs, regVars, extVars>>)
    /\ \A p \in Procs : WF_vars(AcquireWake(p))

SpecLive == Spec /\ Fairness

\* ------------------------------- acquire, with the lock made visible
\* The creation of a client takes time: DirectMCPClient.create_client and
\* client.__enter__() start the server process.  Here acquire is split at
\* that point; every other locked section is one step that needs the lock
\* free.
\* lines 59-79: the lock is taken, nothing is available, there is room: the
\* client is being created and entered
CreateBegin(p, t) ==
    /\ lock = Unlocked
    /\ AcquireEntry(p, t)
    /\ Len(pool) = 0
    /\ CanCreate
    /\ lock' = p
    /\ pc' = [pc EXCEPT ![p] = "creating"]
    /\ acq' = [acq EXCEPT ![p] = Locals(p, t)]
    /\ UNCHANGED <<pool, in_use, created_count, reused_count, nextId,
                   entered, exited, now, held, histVars, output, digest, sessions, cleaned>>

\* lines 80-87: the client is entered, counted and returned; the return
\* leaves the async with and frees the lock
CreateEnd(p) ==
    /\ pc[p] = "creating"
    /\ LET client == nextId IN
        /\ nextId' = nextId + 1
        /\ entered' = entered \cup {client}
        /\ created_count' = created_count + 1
        /\ in_use' = in_use \cup {client}
        /\ held' = [held EXCEPT ![p] = client]
        /\ UNCHANGED <<pool, reused_count, total_requests, exited>>
        /\ lastRel' = Reacquired(client)
        /\ afterDiscard' = AfterDiscard(client)
    /\ pc' = [pc EXCEPT ![p] = "holding"]
    /\ acq' = [acq EXCEPT ![p] = NoAcq]
    /\ lock' = Unlocked
    /\ UNCHANGED <<now, anyRelease, anyFail, discarded, output, digest, sessions, cleaned>>

\* lines 88-90: create_client or __enter__ raises; the exception leaves the
\* async with and frees the lock
CreateRaises(p) ==
    /\ pc[p] = "creating"
    /\ pc' = [pc EXCEPT ![p] = "failed"]
    /\ acq' = [acq EXCEPT ![p] = NoAcq]
    /\ anyFail' = TRUE
    /\ lock' = Unlocked
    /\ UNCHANGED <<poolVars, now, held, anyRelease, discarded,
                   afterDiscard, lastRel, output, digest, sessions, cleaned>>

\* the time the creation takes
CreateTakesTime ==
    /\ \E p \in Procs : pc[p] = "creating"
    /\ now < MaxTime
    /\ now' = now + 1
    /\ UNCHANGED <<poolVars, procVars, histVars>>

NextLock ==
    \/ \E p \in Procs, t \in AcquireArgs :
           /\ lock = Unlocked
           /\ AcquireReuse(p, t)
           /\ UNCHANGED <<borrowVars, mgrVars, runs, regVars, extVars>>
    \/ \E p \in Procs, t \in AcquireArgs :
           CreateBegin(p, t) /\ UNCHANGED <<borrowVars, mgrVars, runs, regVars>>
    \/ \E p \in Procs :
           CreateEnd(p) /\ UNCHANGED <<borrowVars, mgrVars, runs, regVars>>
    \/ \E p \in Procs :
           CreateRaises(p) /\ UNCHANGED <<borrowVars, mgrVars, runs, regVars>>
    \/ \E p \in Procs, t \in AcquireArgs :
           /\ lock = Unlocked
           /\ AcquireTimeout(p, t)
           /\ UNCHANGED <<borrowVars, mgrVars, runs, regVars, extVars>>
    \/ \E p \in Procs, t \in AcquireArgs :
           /\ lock = Unlocked
           /\ AcquireWait(p, t)
           /\ UNCHANGED <<borrowVars, mgrVars, runs, regVars, extVars>>
    \/ \E p \in Procs :
           AcquireRaised(p)
           /\ UNCHANGED <<borrowVars, mgrVars, runs, regVars, extVars>>
    \/ \E p \in Procs :
           /\ lock = Unlocked
           /\ ReleaseNotInUse(p)
           /\ UNCHANGED <<borrowVars, mgrVars, runs, regVars, extVars>>
    \/ \E p \in Procs :
           /\ lock = Unlocked
           /\ ReleaseForce(p)
           /\ UNCHANGED <<borrowVars, mgrVars, runs, regVars, extVars>>
    \/ \E p \in Procs :
           /\ lock = Unlocked
           /\ ReleaseReuse(p)
           /\ UNCHANGED <<borrowVars, mgrVars, runs, regVars, extVars>>
    \/ /\ lock = Unlocked
       /\ Tick
       /\ UNCHANGED <<borrowVars, mgrVars, runs, regVars, extVars>>
    \/ CreateTakesTime
           /\ UNCHANGED <<borrowVars, mgrVars, runs, regVars, extVars>>

SpecLock == Init /\ [][NextLock]_vars

\* ------------------------------------------- MCPPoolManager, borrowers
\* lines 207-214 of get_pooled_client for a new call: the pool of the key is
\* looked up and, on the first request, built by _create_pool, which needs
\* the configuration of the server; a retry is inside pool.acquire
GetPooledEntry(t) ==
    IF t = Retry
    THEN UNCHANGED pools
    ELSE /\ ServerKey \in pools \/ has_config
         /\ pools' = pools \cup {ServerKey}

\* line 218: PooledMCPClient(pool, client), _released = False
NewWrapper(p) ==
    /\ released' = [released EXCEPT ![p] = FALSE]
    /\ relCalls' = [relCalls EXCEPT ![p] = 0]
    /\ UNCHANGED <<has_config, abandoned>>

\* the timeout get_pooled_client passes to acquire (none), and the retry
PooledArgs == {NoTimeout, Retry}

\* get_pooled_client returns a wrapper around a reused client
GetPooledReuse(p) ==
    \E t \in PooledArgs :
        GetPooledEntry(t) /\ AcquireReuse(p, t) /\ NewWrapper(p)

\* get_pooled_client returns a wrapper around a new client
GetPooledCreate(p) ==
    \E t \in PooledArgs :
        GetPooledEntry(t) /\ AcquireCreate(p, t) /\ NewWrapper(p)

\* the creation of the client fails inside pool.acquire
GetPooledCreateFail(p) ==
    \E t \in PooledArgs :
        /\ GetPooledEntry(t)
        /\ AcquireCreateFail(p, t)
        /\ UNCHANGED <<has_config, released, relCalls, abandoned>>

\* pool.acquire raises TimeoutError
GetPooledTimeout(p) ==
    \E t \in PooledArgs :
        /\ GetPooledEntry(t)
        /\ AcquireTimeout(p, t)
        /\ UNCHANGED <<has_config, released, relCalls, abandoned>>

\* pool.acquire waits
GetPooledWait(p) ==
    \E t \in PooledArgs :
        /\ GetPooledEntry(t)
        /\ AcquireWait(p, t)
        /\ UNCHANGED <<has_config, released, relCalls, abandoned>>

\* lines 235-236: first request, no configuration found: ValueError
GetPooledNoConfig(p) ==
    /\ pc[p] = "idle"
    /\ ServerKey \notin pools
    /\ ~has_config
    /\ pc' = [pc EXCEPT ![p] = "failed"]
    /\ UNCHANGED <<poolVars, now, held, acq, histVars, borrowVars>>

\* the borrower is cancelled while pool.acquire sleeps: CancelledError leaves
\* acquire and get_pooled_client, no client was taken
CancelWaiting(p) ==
    /\ pc[p] = "sleeping"
    /\ pc' = [pc EXCEPT ![p] = "idle"]
    /\ acq' = [acq EXCEPT ![p] = NoAcq]
    /\ UNCHANGED <<poolVars, now, held, histVars, borrowVars>>

\* lines 173-175: async with pooled as client
ScopeEnter(p) ==
    /\ pc[p] \in {"holding", "exited"}
    /\ pc' = [pc EXCEPT ![p] = "scope"]
    /\ UNCHANGED <<poolVars, now, held, acq, histVars, borrowVars>>

\* line 178: if not self._released
MustRelease(p) == ~released[p]

\* lines 177-182: __aexit__; exc tells whether the body left with an
\* exception (a CancelledError included)
ScopeExit(p, exc) ==
    /\ pc[p] = "scope"
    /\ pc' = [pc EXCEPT ![p] = "exited"]
    /\ IF MustRelease(p)
       THEN /\ Release(held[p], exc)
            /\ released' = [released EXCEPT ![p] = TRUE]
            /\ relCalls' = [relCalls EXCEPT ![p] = @ + 1]
       ELSE UNCHANGED <<poolVars, histVars, released, relCalls>>
    /\ UNCHANGED <<now, held, acq, pools, has_config, abandoned>>

\* the body of the async with ends normally
ScopeExitNormal(p) == ScopeExit(p, FALSE)

\* the body of the async with raises or is cancelled
ScopeExitError(p) == ScopeExit(p, TRUE)

\* the borrower is done with a wrapper it has left
BorrowerDone(p) ==
    /\ pc[p] = "exited"
    /\ pc' = [pc EXCEPT ![p] = "idle"]
    /\ held' = [held EXCEPT ![p] = NoHandle]
    /\ UNCHANGED <<poolVars, now, acq, histVars, borrowVars>>

\* the borrower raises or is cancelled after get_pooled_client returned and
\* before it enters the wrapper: the wrapper is dropped, __aexit__ never runs
BorrowerAbandons(p) ==
    /\ pc[p] = "holding"
    /\ pc' = [pc EXCEPT ![p] = "idle"]
    /\ held' = [held EXCEPT ![p] = NoHandle]
    /\ abandoned' = abandoned \cup {p}
    /\ UNCHANGED <<poolVars, now, acq, histVars, pools, has_config,
                   released, relCalls>>

InitBorrow ==
    /\ InitPool
    /\ InitRegistry
    /\ has_config \in BOOLEAN
    /\ InitManager
    /\ InitRequests
    /\ InitExt

NextBorrow ==
    \/ \E p \in Procs : GetPooledReuse(p) /\ UNCHANGED <<mgrVars, runs, regVars, extVars>>
    \/ \E p \in Procs : GetPooledCreate(p) /\ UNCHANGED <<mgrVars, runs, regVars, extVars>>
    \/ \E p \in Procs : GetPooledCreateFail(p) /\ UNCHANGED <<mgrVars, runs, regVars, extVars>>
    \/ \E p \in Procs : GetPooledTimeout(p) /\ UNCHANGED <<mgrVars, runs, regVars, extVars>>
    \/ \E p \in Procs : GetPooledWait(p) /\ UNCHANGED <<mgrVars, runs, regVars, extVars>>
    \/ \E p \in Procs : GetPooledNoConfig(p) /\ UNCHANGED <<mgrVars, runs, regVars, extVars>>
    \/ \E p \in Procs : AcquireRaised(p) /\ UNCHANGED <<borrowVars, mgrVars, runs, regVars, extVars>>
    \/ \E p \in Procs : CancelWaiting(p) /\ UNCHANGED <<mgrVars, runs, regVars, extVars>>
    \/ \E p \in Procs : ScopeEnter(p) /\ UNCHANGED <<mgrVars, runs, regVars, extVars>>
    \/ \E p \in Procs : ScopeExitNormal(p) /\ UNCHANGED <<mgrVars, runs, regVars, extVars>>
    \/ \E p \in Procs : ScopeExitError(p) /\ UNCHANGED <<mgrVars, runs, regVars, extVars>>
    \/ \E p \in Procs : BorrowerDone(p) /\ UNCHANGED <<mgrVars, runs, regVars, extVars>>
    \/ \E p \in Procs : BorrowerAbandons(p) /\ UNCHANGED <<mgrVars, runs, regVars, extVars>>
    \/ Tick /\ UNCHANGED <<borrowVars, mgrVars, runs, regVars, extVars>>

SpecBorrow == InitBorrow /\ [][NextBorrow]_vars

\* ------------------------------------------ MCPPoolManager, shutdown
\* lines 259-267: cleanup_all, under the manager's lock: the deque and the
\* in_use set of every pool are cleared, then the registry
CleanupAll ==
    /\ ~cleaned
    /\ pool' = <<>>
    /\ in_use' = {}
    /\ pools' = {}
    /\ cleaned' = TRUE
    /\ UNCHANGED <<created_count, reused_count, total_requests, nextId,
                   entered, exited, now, procVars, histVars, has_config,
                   released, relCalls, abandoned>>

\* the application is shutting down: no new request arrives after
\* cleanup_all; the calls that wait inside pool.acquire go on
Admitted(p) == cleaned => pc[p] = "sleeping"

NextShutdown ==
    \/ \E p \in Procs : Admitted(p) /\ GetPooledReuse(p)
           /\ UNCHANGED <<mgrVars, runs, regVars, extVars>>
    \/ \E p \in Procs : Admitted(p) /\ GetPooledCreate(p)
           /\ UNCHANGED <<mgrVars, runs, regVars, extVars>>
    \/ \E p \in Procs : Admitted(p) /\ GetPooledCreateFail(p)
           /\ UNCHANGED <<mgrVars, runs, regVars, extVars>>
    \/ \E p \in Procs : Admitted(p) /\ GetPooledTimeout(p)
           /\ UNCHANGED <<mgrVars, runs, regVars, extVars>>
    \/ \E p \in Procs : Admitted(p) /\ GetPooledWait(p)
           /\ UNCHANGED <<mgrVars, runs, regVars, extVars>>
    \/ \E p \in Procs : AcquireRaised(p)
           /\ UNCHANGED <<borrowVars, mgrVars, runs, regVars, extVars>>
    \/ \E p \in Procs : ScopeEnter(p)
           /\ UNCHANGED <<mgrVars, runs, regVars, extVars>>
    \/ \E p \in Procs : ScopeExitNormal(p)
           /\ UNCHANGED <<mgrVars, runs, regVars, extVars>>
    \/ \E p \in Procs : ScopeExitError(p)
           /\ UNCHANGED <<mgrVars, runs, regVars, extVars>>
    \/ \E p \in Procs : BorrowerDone(p)
           /\ UNCHANGED <<mgrVars, runs, regVars, extVars>>
    \/ CleanupAll
           /\ UNCHANGED <<mgrVars, runs, regVars, output, digest, lock,
                          sessions>>
    \/ Tick /\ UNCHANGED <<borrowVars, mgrVars, runs, regVars, extVars>>

SpecShutdown == Init /\ [][NextShutdown]_vars

\* ---------------------------------- MCPClientManager, pipeline runs
\* line 88: if self._mcp_client is None or self._active_servers != mcp_servers
NeedCreate(servers) == mcp_client = NoHandle \/ active_servers # servers

\* the outcomes of one agent call (_execute_agent): success, success with
\* empty content, or an exception caught and recorded
AgentOutcomes == {"ok", "empty", "failed"}

NoResults == [k \in 1..3 |-> "none"]

\* mutant of ErrorResults: only the first step is marked failed
ErrorResults_FirstOnly == [k \in 1..3 |-> IF k = 1 THEN "error" ELSE "none"]

\* lines 1688-1692: the run-level failure, every step marked failed
ErrorResults == [k \in 1..3 |-> "error"]

\* execute_all is left by an exception: its inputs and the locals of its
\* steps are gone
Returned(rec) ==
    [rec EXCEPT !.step = 0, !.diagram = FALSE, !.cost = FALSE,
                !.existing = FALSE, !.existing_diagram = FALSE,
                !.ctx = <<{}, {}, {}>>]

\* lines 1686-1692: execute_all returns the run-level failure in place of
\* the results
Failure(rec) ==
    [Returned(rec) EXCEPT !.pc = "aborted", !.results = ErrorResults,
                          !.written = <<1, 2, 3>>]

\* the keys of the record of a step: lines 1770-1775 (success), 1778-1784
\* (the agent call failed), 1597, 1633, 1679 (placeholder of a skipped
\* step), 1689-1691 (run-level failure); content: the content is not empty
Record(o) ==
    [content |-> o \in {"ok", "failed"},
     success |-> o \in {"ok", "empty"},
     skipped |-> o = "skipped",
     error |-> o \in {"failed", "error"}]

\* lines 37-60: MCPClientWrapper.__aexit__
WrapperExit(rec) ==
    [rec EXCEPT !.exits = IF rec.context_entered THEN @ + 1 ELSE @,
                !.in_use = FALSE,
                !.context_entered = FALSE]

\* lines 1601-1606 and 1637-1641: a template is there for the later steps
TemplateAvailable(rec) == rec.existing \/ rec.results[1] = "ok"

\* mutant of TemplateSource: the success flag of step 1 is not looked at,
\* the content of a failed step (its error text) counts as a template
TemplateSource_AnyContent(rec) ==
    IF rec.existing THEN {"existing_cloudformation_template"}
    ELSE IF rec.results[1] \in {"ok", "failed"} THEN {"cloudformation"}
    ELSE {}

\* lines 1601-1606 and 1637-1641: where the template comes from that is
\* summarised for a later step
TemplateSource(rec) ==
    IF rec.existing THEN {"existing_cloudformation_template"}
    ELSE IF rec.results[1] = "ok" THEN {"cloudformation"}
    ELSE {}

\* lines 1643-1647: where the diagram comes from that is summarised for the
\* cost step
DiagramSource(rec) ==
    IF rec.existing_diagram THEN {"existing_diagram"}
    ELSE IF rec.results[2] = "ok" THEN {"diagram"}
    ELSE {}

\* lines 1614-1619 and 1652-1665: the summaries put into the inputs of step k
Context(rec, k) ==
    IF k = 2 THEN TemplateSource(rec)
    ELSE IF k = 3 THEN TemplateSource(rec) \cup DiagramSource(rec)
    ELSE {}

\* lines 1597, 1633, 1679: the placeholder of a step that is not run
Skip(rec, k) ==
    [rec EXCEPT !.results[k] = "skipped", !.written = Append(@, k)]

\* mutant of Call: the diagram and the cost step are started together
Call_Gather(rec, k) ==
    IF k = 2 /\ rec.cost
    THEN [rec EXCEPT !.step = 3, !.calls = @ \o <<2, 3>>,
                     !.ctx[2] = Context(rec, 2), !.ctx[3] = Context(rec, 3)]
    ELSE [rec EXCEPT !.step = k, !.calls = Append(@, k),
                     !.ctx[k] = Context(rec, k)]

\* lines 1592, 1628, 1674: the agent call of step k is made
Call(rec, k) ==
    [rec EXCEPT !.step = k, !.calls = Append(@, k),
                !.ctx[k] = Context(rec, k)]

\* line 1608: if generate_flags.get("diagram", False) and
\* cf_content_for_diagram
DiagramEnabled(rec) == rec.diagram /\ TemplateAvailable(rec)

\* mutant of CostEnabled: the cost step always runs
CostEnabled_Always(rec) == TRUE

\* line 1649: if generate_flags.get("cost", False)
CostEnabled(rec) == rec.cost

\* lines 1608 and 1649: the step whose agent call comes after step k, with
\* the placeholders of the steps skipped on the way; 4: no step is left
Advance(rec, k) ==
    LET afterDiagram(rc) ==
            IF CostEnabled(rc)
            THEN Call(rc, 3)
            ELSE [Skip(rc, 3) EXCEPT !.step = 4]
    IN IF k = 1
       THEN IF DiagramEnabled(rec)
            THEN Call(rec, 2)
            ELSE afterDiagram(Skip(rec, 2))
       ELSE IF k = 2
       THEN afterDiagram(rec)
       ELSE [rec EXCEPT !.step = 4]

\* lines 95-104: release_mcp_client
ReleaseUsage(n) == IF n > 0 THEN n - 1 ELSE n

\* lines 82-93 and 119-152: get_mcp_client_wrapper succeeds; a client for
\* another server list replaces the current one and resets the count
GetWrapper(servers) ==
    IF NeedCreate(servers)
    THEN /\ mcp_client' = mgrNextId
         /\ mgrNextId' = mgrNextId + 1
         /\ active_servers' = servers
         /\ usage_count' = 1
    ELSE /\ usage_count' = usage_count + 1
         /\ UNCHANGED <<mcp_client, active_servers, mgrNextId>>

\* lines 1547-1563: the locals of a run that got its wrapper
Started(servers, d, c, e) ==
    [NoRun EXCEPT !.servers = servers, !.client = mcp_client',
                  !.diagram = d, !.cost = c, !.existing = e[1],
                  !.existing_diagram = e[2],
                  !.results = NoResults]

\* the inputs of a run: existing_cloudformation_template and
\* existing_diagram are given or not
ExistingInputs == BOOLEAN \X BOOLEAN

\* lines 119-156: _create_direct_client raises (no configuration, or the
\* client cannot be built) after it dropped the current client; execute_all
\* returns the run-level failure
RunGetWrapperFails(r) ==
    \E servers \in ServerLists :
        /\ runs[r].pc = "idle"
        /\ NeedCreate(servers)
        /\ IF mcp_client # NoHandle
           THEN /\ mcp_client' = NoHandle
                /\ active_servers' = ""
                /\ usage_count' = 0
           ELSE UNCHANGED <<mcp_client, active_servers, usage_count>>
        /\ runs' = [runs EXCEPT ![r] =
               Failure([NoRun EXCEPT !.servers = servers])]
        /\ UNCHANGED mgrNextId

\* lines 26-35: mcp_client.__enter__ raises inside __aenter__; __aexit__ is
\* not called
RunEnterFails(r) ==
    \E servers \in ServerLists, d, c \in BOOLEAN, e \in ExistingInputs :
        /\ runs[r].pc = "idle"
        /\ GetWrapper(servers)
        /\ runs' = [runs EXCEPT ![r] =
               Failure([Started(servers, d, c, e) EXCEPT
                            !.in_use = TRUE, !.context_entered = TRUE])]

\* lines 1566-1591: list_tools_sync (or building the first agent) raises
\* inside the async with
RunListToolsFails(r) ==
    \E servers \in ServerLists, d, c \in BOOLEAN, e \in ExistingInputs :
        /\ runs[r].pc = "idle"
        /\ GetWrapper(servers)
        /\ runs' = [runs EXCEPT ![r] =
               Failure(WrapperExit([Started(servers, d, c, e) EXCEPT
                                        !.in_use = TRUE,
                                        !.context_entered = TRUE,
                                        !.wasEntered = TRUE]))]

\* lines 1561-1592: the run gets its wrapper, enters it, lists the tools and
\* suspends in the agent call of step 1
RunStart(r) ==
    \E servers \in ServerLists, d, c \in BOOLEAN, e \in ExistingInputs :
        /\ runs[r].pc = "idle"
        /\ GetWrapper(servers)
        /\ runs' = [runs EXCEPT ![r] =
               [Call(Started(servers, d, c, e), 1) EXCEPT
                    !.pc = "step", !.in_use = TRUE,
                    !.context_entered = TRUE, !.wasEntered = TRUE]]

\* the record of the run after the agent call of its step returned
Recorded(r, outcome) ==
    Advance([runs[r] EXCEPT !.results[runs[r].step] = outcome,
                            !.written = Append(@, runs[r].step)],
            runs[r].step)

\* lines 1592-1674: an agent call returns, a later step is enabled and the
\* run suspends in its agent call
StepCompletes(r) ==
    \E outcome \in AgentOutcomes :
        /\ runs[r].pc = "step"
        /\ Recorded(r, outcome).step <= 3
        /\ runs' = [runs EXCEPT ![r] = Recorded(r, outcome)]
        /\ UNCHANGED mgrVars

\* lines 1675-1684: the last agent call returns; the wrapper is exited, the
\* usage released and the results returned
RunCompletes(r) ==
    \E outcome \in AgentOutcomes :
        /\ runs[r].pc = "step"
        /\ Recorded(r, outcome).step = 4
        /\ runs' = [runs EXCEPT ![r] =
               [WrapperExit(Recorded(r, outcome)) EXCEPT
                    !.pc = "done", !.releases = @ + 1]]
        /\ usage_count' = ReleaseUsage(usage_count)
        /\ UNCHANGED <<mcp_client, active_servers, mgrNextId>>

\* lines 1608-1673, 1686-1692: after an agent call returned, preparing the
\* next step raises (parsing, summarising, building the agent) before its
\* agent call is made; the wrapper is exited and execute_all returns the
\* run-level failure
RunBodyRaises(r) ==
    \E outcome \in AgentOutcomes :
        /\ runs[r].pc = "step"
        /\ Recorded(r, outcome).step <= 3
        /\ runs' = [runs EXCEPT ![r] =
               [Failure(WrapperExit(Recorded(r, outcome))) EXCEPT
                    !.calls = runs[r].calls]]
        /\ UNCHANGED mgrVars

\* the caller is cancelled while the run is suspended in an agent call:
\* CancelledError passes _execute_agent and the except of execute_all, the
\* wrapper is exited on the way out
RunCancelled(r) ==
    /\ runs[r].pc = "step"
    /\ runs' = [runs EXCEPT ![r] =
           [Returned(WrapperExit(runs[r])) EXCEPT !.pc = "cancelled"]]
    /\ UNCHANGED mgrVars

NextRun ==
    \/ \E r \in Runs : RunGetWrapperFails(r)
           /\ UNCHANGED <<poolVars, now, procVars, histVars, borrowVars, regVars, extVars>>
    \/ \E r \in Runs : RunEnterFails(r)
           /\ UNCHANGED <<poolVars, now, procVars, histVars, borrowVars, regVars, extVars>>
    \/ \E r \in Runs : RunListToolsFails(r)
           /\ UNCHANGED <<poolVars, now, procVars, histVars, borrowVars, regVars, extVars>>
    \/ \E r \in Runs : RunStart(r)
           /\ UNCHANGED <<poolVars, now, procVars, histVars, borrowVars, regVars, extVars>>
    \/ \E r \in Runs : StepCompletes(r)
           /\ UNCHANGED <<poolVars, now, procVars, histVars, borrowVars, regVars, extVars>>
    \/ \E r \in Runs : RunCompletes(r)
           /\ UNCHANGED <<poolVars, now, procVars, histVars, borrowVars, regVars, extVars>>
    \/ \E r \in Runs : RunBodyRaises(r)
           /\ UNCHANGED <<poolVars, now, procVars, histVars, borrowVars, regVars, extVars>>
    \/ \E r \in Runs : RunCancelled(r)
           /\ UNCHANGED <<poolVars, now, procVars, histVars, borrowVars, regVars, extVars>>

SpecRun == Init /\ [][NextRun]_vars

\* one call of execute_all on its own
OneRun == CHOOSE r \in Runs : \A q \in Runs : r <= q

NextPipeline ==
    \/ RunGetWrapperFails(OneRun)
           /\ UNCHANGED <<poolVars, now, procVars, histVars, borrowVars, regVars, extVars>>
    \/ RunEnterFails(OneRun)
           /\ UNCHANGED <<poolVars, now, procVars, histVars, borrowVars, regVars, extVars>>
    \/ RunListToolsFails(OneRun)
           /\ UNCHANGED <<poolVars, now, procVars, histVars, borrowVars, regVars, extVars>>
    \/ RunStart(OneRun)
           /\ UNCHANGED <<poolVars, now, procVars, histVars, borrowVars, regVars, extVars>>
    \/ StepCompletes(OneRun)
           /\ UNCHANGED <<poolVars, now, procVars, histVars, borrowVars, regVars, extVars>>
    \/ RunCompletes(OneRun)
           /\ UNCHANGED <<poolVars, now, procVars, histVars, borrowVars, regVars, extVars>>
    \/ RunBodyRaises(OneRun)
           /\ UNCHANGED <<poolVars, now, procVars, histVars, borrowVars, regVars, extVars>>
    \/ RunCancelled(OneRun)
           /\ UNCHANGED <<poolVars, now, procVars, histVars, borrowVars, regVars, extVars>>

SpecPipeline == Init /\ [][NextPipeline]_vars

\* ------------------------------------ MCPPoolManager, the registry
\* Server names are strings, modelled as sequences of character codes.
Comma == 44

\* "a", "b" and a name that holds a comma, "a,b"
ServerNames == {<<97>>, <<98>>, <<97, Comma, 98>>}

\* the names mode_servers.json has a configuration for: "a" and "a,b"
Configured == {<<97>>, <<97, Comma, 98>>}

\* the mcp_servers arguments: the lists of 1..MaxServers server names
RequestLists == UNION {[1..n -> ServerNames] : n \in 1..MaxServers}

\* the order of Python strings: a < b
StrLess(a, b) ==
    \E i \in 1..(Len(a) + 1) :
        /\ i <= Len(b)
        /\ \A j \in 1..(i - 1) : j <= Len(b) /\ a[j] = b[j]
        /\ i > Len(a) \/ a[i] < b[i]

RECURSIVE Insert(_, _)
Insert(x, l) ==
    IF l = <<>> THEN <<x>>
    ELSE IF StrLess(Head(l), x) \/ Head(l) = x
         THEN <<Head(l)>> \o Insert(x, Tail(l))
         ELSE <<x>> \o l

\* sorted(mcp_servers)
RECURSIVE Sorted(_)
Sorted(l) == IF l = <<>> THEN <<>> ELSE Insert(Head(l), Sorted(Tail(l)))

\* ",".join(names)
RECURSIVE Join(_)
Join(names) ==
    IF names = <<>> THEN <<>>
    ELSE IF Len(names) = 1 THEN names[1]
    ELSE names[1] \o <<Comma>> \o Join(Tail(names))

\* mutant of server_key: the list is joined as given
server_key_Unsorted(mcp_servers) == Join(mcp_servers)

\* line 208: server_key = ",".join(sorted(mcp_servers))
server_key(mcp_servers) == Join(Sorted(mcp_servers))

\* mutant of NeedPool: the lookup is missing, every request builds a pool
NeedPool_Always(key) == TRUE

\* line 211: if server_key not in self.pools
NeedPool(key) == key \notin DOMAIN registry

\* line 225: first_server = mcp_servers[0]
FirstServer(mcp_servers) == mcp_servers[1]

\* lines 229-235: a configuration is found for the server
HasConfig(name) == name \in Configured

\* lines 239-245: the pool _create_pool constructs and registers
NewPool(key, mcp_servers) ==
    [key |-> key, servers |-> mcp_servers,
     config |-> FirstServer(mcp_servers), created |-> 0]

\* lines 210-214: the registry and the pool objects after the lookup
Registered(key, mcp_servers) ==
    IF NeedPool(key)
    THEN [k \in DOMAIN registry \cup {key} |->
             IF k = key THEN Len(poolObjs) + 1 ELSE registry[k]]
    ELSE registry

Constructed(key, mcp_servers) ==
    IF NeedPool(key)
    THEN Append(poolObjs, NewPool(key, mcp_servers))
    ELSE poolObjs

\* lines 207-214 for a request that passes them: pool = self.pools[server_key]
Lookup(q, mcp_servers) ==
    LET key == server_key(mcp_servers) IN
    /\ reqs[q].pc = "idle"
    /\ NeedPool(key) => HasConfig(FirstServer(mcp_servers))
    /\ registry' = Registered(key, mcp_servers)

\* the locals of the request after the lookup
Resolved(q, mcp_servers) ==
    [NoReq EXCEPT !.servers = mcp_servers,
                  !.key = server_key(mcp_servers),
                  !.pool = registry'[server_key(mcp_servers)],
                  !.first = NeedPool(server_key(mcp_servers))]

\* lines 235-236: first request for the key, no configuration for the first
\* server: ValueError, nothing is registered
RegNoConfig(q) ==
    \E mcp_servers \in RequestLists :
        /\ reqs[q].pc = "idle"
        /\ NeedPool(server_key(mcp_servers))
        /\ ~HasConfig(FirstServer(mcp_servers))
        /\ reqs' = [reqs EXCEPT ![q] =
               [NoReq EXCEPT !.pc = "failed", !.servers = mcp_servers,
                             !.key = server_key(mcp_servers),
                             !.first = TRUE]]
        /\ UNCHANGED <<registry, poolObjs>>

\* lines 207-218: the pool of the key has room, pool.acquire creates a client
RegAcquired(q) ==
    \E mcp_servers \in RequestLists :
        /\ Lookup(q, mcp_servers)
        /\ LET objs == Constructed(server_key(mcp_servers), mcp_servers)
               id == registry'[server_key(mcp_servers)]
           IN /\ objs[id].created < DefaultPoolSize
              /\ poolObjs' = [objs EXCEPT ![id].created = @ + 1]
              /\ reqs' = [reqs EXCEPT ![q] =
                     [Resolved(q, mcp_servers) EXCEPT
                          !.pc = "holding",
                          !.client = objs[id].created + 1]]

\* lines 207-217: the pool has room and the creation of the client fails
RegCreateFails(q) ==
    \E mcp_servers \in RequestLists :
        /\ Lookup(q, mcp_servers)
        /\ LET objs == Constructed(server_key(mcp_servers), mcp_servers)
               id == registry'[server_key(mcp_servers)]
           IN /\ objs[id].created < DefaultPoolSize
              /\ poolObjs' = objs
              /\ reqs' = [reqs EXCEPT ![q] =
                     [Resolved(q, mcp_servers) EXCEPT !.pc = "error"]]

\* lines 207-217: the pool is at capacity, pool.acquire waits
RegWaits(q) ==
    \E mcp_servers \in RequestLists :
        /\ Lookup(q, mcp_servers)
        /\ LET objs == Constructed(server_key(mcp_servers), mcp_servers)
               id == registry'[server_key(mcp_servers)]
           IN /\ objs[id].created >= DefaultPoolSize
              /\ poolObjs' = objs
              /\ reqs' = [reqs EXCEPT ![q] =
                     [Resolved(q, mcp_servers) EXCEPT !.pc = "waiting"]]

NextRegistry ==
    \/ \E q \in Reqs : RegNoConfig(q)
           /\ UNCHANGED <<poolVars, now, procVars, histVars, borrowVars,
                          mgrVars, runs, extVars>>
    \/ \E q \in Reqs : RegAcquired(q)
           /\ UNCHANGED <<poolVars, now, procVars, histVars, borrowVars,
                          mgrVars, runs, extVars>>
    \/ \E q \in Reqs : RegCreateFails(q)
           /\ UNCHANGED <<poolVars, now, procVars, histVars, borrowVars,
                          mgrVars, runs, extVars>>
    \/ \E q \in Reqs : RegWaits(q)
           /\ UNCHANGED <<poolVars, now, procVars, histVars, borrowVars,
                          mgrVars, runs, extVars>>

SpecRegistry == Init /\ [][NextRegistry]_vars

\* ------------------------------------------- digests of step outputs
\* Sizes are counted in characters.  A template output is one with
\* output.count resources of type AWS::S3::Bucket whose names have
\* output.len characters; a diagram output is an SVG
\* "<svg>" ("<text>" name "</text><rect/>")* "</svg>" with output.count
\* distinct component names of output.len characters.
Templates ==
    [kind : {"template"}, count : 0..MaxResources, len : 1..MaxNameLen]

Diagrams ==
    [kind : {"diagram"}, count : 0..MaxTexts, len : 1..MaxTextLen]

\* len(str(n))
RECURSIVE Digits(_)
Digits(n) == IF n < 10 THEN 1 ELSE 1 + Digits(n \div 10)

RECURSIVE Sum(_)
Sum(parts) == IF parts = <<>> THEN 0 ELSE Head(parts) + Sum(Tail(parts))

\* len("\n".join(parts)) for the lengths of the parts
Joined(parts) ==
    IF parts = <<>> THEN 0 ELSE Sum(parts) + Len(parts) - 1

\* line 2143: list(parsed_info["resources"].items())[:20]
ResourceLimit == 20

\* line 2217: list(set(texts))[:15]
ComponentLimit == 15

\* line 2226: content[:300]
OverviewLimit == 300

\* line 2143: the resources that get a line of their own
Listed(n) == Min(n, ResourceLimit)

\* lines 2137-2149: "## AWS Services Used:\nS3\n", "## Resources (n total):",
\* a line "- name (Bucket)" for each listed resource, "- ... and k more
\* resources", ""
ResourceParts(doc) ==
    IF doc.count = 0 THEN <<>>
    ELSE <<25, 22 + Digits(doc.count)>>
         \o [i \in 1..Listed(doc.count) |-> doc.len + 11]
         \o (IF doc.count > ResourceLimit
             THEN <<25 + Digits(doc.count - ResourceLimit)>>
             ELSE <<>>)
         \o <<0>>

\* lines 2183-2190: "## Key Resource Properties for Cost Estimation:", a line
\* "- name: service: S3, storage_class: Standard" for every resource, ""
PropertyParts(doc) ==
    IF doc.count = 0 THEN <<>>
    ELSE <<47>> \o [i \in 1..doc.count |-> doc.len + 40] \o <<0>>

\* lines 2126-2192: len(_format_cloudformation_summary(parsed_info,
\* for_agent)); the buckets have no network architecture and no references
format_cloudformation_summary(doc, for_agent) ==
    Joined(ResourceParts(doc)
           \o (IF for_agent = "cost" THEN PropertyParts(doc) ELSE <<>>))

\* len(content) of a diagram output
ContentSize(doc) == 11 + doc.count * (doc.len + 20)

\* lines 2206-2228: len(_summarize_output(content, "diagram")):
\* "Components: a, b, ...", "Contains n visual elements",
\* "Diagram Overview: " and the first 300 characters
summarize_output(doc) ==
    LET shown == Min(doc.count, ComponentLimit) IN
    Joined((IF doc.count > 0
            THEN <<12 + shown * doc.len + 2 * (shown - 1)>>
            ELSE <<>>)
           \o <<25 + Digits(doc.count),
                18 + Min(ContentSize(doc), OverviewLimit)>>)

InitDigest ==
    /\ InitPool
    /\ InitRegistry
    /\ has_config = TRUE
    /\ InitManager
    /\ InitRequests
    /\ output \in Templates \cup Diagrams
    /\ digest = <<>>
    /\ lock = Unlocked
    /\ sessions = [id \in SessionIds |-> NoSession]
    /\ cleaned = FALSE

\* the digest of the output for one consumer is made
Digested(consumer, size) ==
    [c \in DOMAIN digest \cup {consumer} |->
        IF c = consumer THEN size ELSE digest[c]]

\* lines 1610-1611: the template is summarised for the diagram agent
SummaryForDiagram ==
    /\ output.kind = "template"
    /\ "diagram" \notin DOMAIN digest
    /\ digest' = Digested("diagram",
                          format_cloudformation_summary(output, "diagram"))
    /\ UNCHANGED <<output, lock, sessions, cleaned>>

\* lines 1655-1657: the template is summarised for the cost agent
SummaryForCost ==
    /\ output.kind = "template"
    /\ "cost" \notin DOMAIN digest
    /\ digest' = Digested("cost",
                          format_cloudformation_summary(output, "cost"))
    /\ UNCHANGED <<output, lock, sessions, cleaned>>

\* lines 1663-1665: the diagram is summarised for the cost agent
SummaryOfDiagram ==
    /\ output.kind = "diagram"
    /\ "summary" \notin DOMAIN digest
    /\ digest' = Digested("summary", summarize_output(output))
    /\ UNCHANGED <<output, lock, sessions, cleaned>>

NextDigest ==
    \/ SummaryForDiagram
           /\ UNCHANGED <<poolVars, now, procVars, histVars, borrowVars,
                          mgrVars, runs, regVars>>
    \/ SummaryForCost
           /\ UNCHANGED <<poolVars, now, procVars, histVars, borrowVars,
                          mgrVars, runs, regVars>>
    \/ SummaryOfDiagram
           /\ UNCHANGED <<poolVars, now, procVars, histVars, borrowVars,
                          mgrVars, runs, regVars>>

SpecDigest == InitDigest /\ [][NextDigest]_vars

\* ------------------------------------------------- SessionManager
\* line 77: keep only the last 20 exchanges
HistoryLimit == 20

\* mutant of KeepLast: the oldest exchanges are kept
KeepLast_Oldest(history) ==
    IF Len(history) > HistoryLimit
    THEN SubSeq(history, 1, HistoryLimit)
    ELSE history

\* lines 76-78: if len(history) > 20: history = history[-20:]
KeepLast(history) ==
    IF Len(history) > HistoryLimit
    THEN SubSeq(history, Len(history) - HistoryLimit + 1, Len(history))
    ELSE history

\* lines 23-36: create_session: a new id with an empty history
CreateSession(id) ==
    /\ ~sessions[id].present
    /\ sessions' = [sessions EXCEPT ![id] =
           [NoSession EXCEPT !.present = TRUE, !.returned = "id"]]
    /\ UNCHANGED <<output, digest, lock, cleaned>>

\* lines 64-81: add_to_conversation_history on a session that exists; the
\* exchanges are numbered in the order they are added, from 0
AddToHistory(id) ==
    /\ sessions[id].present
    /\ sessions[id].added < MaxExchanges
    /\ sessions' = [sessions EXCEPT ![id] =
           [@ EXCEPT !.conversation_history = KeepLast(Append(@, sessions[id].added)),
                     !.added = @ + 1,
                     !.returned = "True"]]
    /\ UNCHANGED <<output, digest, lock, cleaned>>

\* lines 66-67: the session id is not in self.sessions: return False
AddToMissing(id) ==
    /\ ~sessions[id].present
    /\ sessions' = [sessions EXCEPT ![id].returned = "False"]
    /\ UNCHANGED <<output, digest, lock, cleaned>>

\* lines 44-48: get_session finds the session expired and deletes it
ExpireSession(id) ==
    /\ sessions[id].present
    /\ sessions' = [sessions EXCEPT ![id] =
           [NoSession EXCEPT !.returned = "None"]]
    /\ UNCHANGED <<output, digest, lock, cleaned>>

NextSession ==
    \/ \E id \in SessionIds : CreateSession(id)
           /\ UNCHANGED <<poolVars, now, procVars, histVars, borrowVars,
                          mgrVars, runs, regVars>>
    \/ \E id \in SessionIds : AddToHistory(id)
           /\ UNCHANGED <<poolVars, now, procVars, histVars, borrowVars,
                          mgrVars, runs, regVars>>
    \/ \E id \in SessionIds : AddToMissing(id)
           /\ UNCHANGED <<poolVars, now, procVars, histVars, borrowVars,
                          mgrVars, runs, regVars>>
    \/ \E id \in SessionIds : ExpireSession(id)
           /\ UNCHANGED <<poolVars, now, procVars, histVars, borrowVars,
                          mgrVars, runs, regVars>>

SpecSession == Init /\ [][NextSession]_vars

\* ------------------------------------------------------------ claims
\* C1: for every interleaving of acquire and release (a second release and a
\* release with force_recreate included), no client identity is at the same
\* time in the available deque and in the in_use set, and no identity occurs
\* twice in the deque.
C1_MutualExclusion ==
    /\ SeqSet(pool) \cap in_use = {}
    /\ \A i, j \in 1..Len(pool) : pool[i] = pool[j] => i = j

\* C1 witness: a client was released twice (the second release after another
\* caller got it again) and is available while another client is in use.
C1_Witness ==
    /\ Len(pool) = 1
    /\ in_use # {}
    /\ reused_count >= 1
    /\ anyRelease
    /\ \E p \in Procs : pc[p] = "holding" /\ held[p] \in SeqSet(pool)

\* C2: in every reachable state created <= capacity and
\* size(available) + size(in_use) <= created.
C2_Counters ==
    /\ created_count <= PoolSize
    /\ Len(pool) + Cardinality(in_use) <= created_count

\* C2 witness: the pool is at capacity after a failed creation and a
\* timed-out acquire, with one client available and one in use.
C2_Witness ==
    /\ created_count = PoolSize
    /\ anyFail
    /\ \E p \in Procs : pc[p] = "timedout"
    /\ Len(pool) + Cardinality(in_use) = created_count
    /\ exited = {}

\* the callers that hold a client
Holders == {p \in Procs : pc[p] = "holding"}

\* C3: on a fresh pool of capacity N, as long as nothing is released (and no
\* creation fails), the first N acquire calls each return a client, the N
\* identities are distinct, every further caller waits and ends only by its
\* timeout expiring, and never more than N callers hold a client.
C3_CapacityBound ==
    (~anyRelease /\ ~anyFail) =>
        /\ Cardinality(Holders) = Min(total_requests, PoolSize)
        /\ \A p, q \in Holders : p # q => held[p] # held[q]
        /\ \A p \in Procs : pc[p] \in {"sleeping", "timedout"} =>
               Cardinality(Holders) = PoolSize
        /\ \A p \in Procs : pc[p] = "timedout" =>
               acq[p].raisedAt > acq[p].deadline
        /\ \A p \in Procs : pc[p] # "failed"

\* C3 witness: capacity + 1 callers, nothing released: N hold distinct
\* clients and the extra caller has timed out.
C3_Witness ==
    /\ ~anyRelease
    /\ ~anyFail
    /\ Cardinality(Holders) = PoolSize
    /\ \E p \in Procs : pc[p] = "timedout"

\* C4: a release without force_recreate into an empty pool followed by an
\* acquire: the acquire returns the same identity, counts as a reuse
\* (reused + 1, created unchanged) and the client was neither exited nor
\* re-entered in between.
C4_ReuseSameClient ==
    lastRel.st = "reacquired" =>
        /\ lastRel.got = lastRel.h
        /\ lastRel.dreused = 1
        /\ lastRel.dcreated = 0
        /\ lastRel.live

\* C4 witness: a released client was acquired again and is held.
C4_Witness ==
    /\ lastRel.st = "reacquired"
    /\ \E p \in Procs : pc[p] = "holding" /\ held[p] = lastRel.h
    /\ lastRel.h \in in_use

\* C5 (the claim as stated): a release with force_recreate that takes effect
\* decrements created, and an acquire attempt waits or times out only when
\* PoolSize clients are in use, so that after a discard on a full pool the
\* next acquire creates a fresh client.
C5_DiscardFreesCapacity ==
    [][/\ discarded' # discarded => created_count' = created_count - 1
       /\ \A p \in Procs :
              (pc'[p] \in {"sleeping", "timedout"} /\ acq'[p] # acq[p]) =>
                  Cardinality(in_use) = PoolSize]_vars

C7_AcquireTerminates ==
    \A p \in Procs :
        (pc[p] = "sleeping") ~> (pc[p] \in {"holding", "timedout", "failed"})

\* C7 witness: the pool is at capacity, nothing was released, and a caller
\* that waited got the TimeoutError after its deadline.
C7_Witness ==
    /\ ~anyRelease
    /\ Cardinality(in_use) = PoolSize
    /\ \E p \in Procs : /\ pc[p] = "timedout"
                        /\ acq[p].raisedAt > acq[p].deadline
                        /\ acq[p].raisedAt > acq[p].start

\* the deadline the claim gives a call: entry time plus the timeout passed,
\* max_wait only when none was passed
ClaimedDeadline(p) ==
    acq[p].start + (IF acq[p].arg = NoTimeout THEN MaxWait ELSE acq[p].arg)

\* C8 (the claim as stated): the deadline of a call is its entry time plus
\* the timeout passed (max_wait only when none is passed), retries do not
\* move it, and the TimeoutError is raised after the deadline and, when the
\* sleep ends on time, no later than the deadline plus one backoff wait.
C8_DeadlineFromArgument ==
    \A p \in Procs :
        /\ pc[p] \in {"sleeping", "timedout"} =>
               acq[p].deadline = ClaimedDeadline(p)
        /\ pc[p] = "timedout" =>
               /\ acq[p].raisedAt > ClaimedDeadline(p)
               /\ acq[p].raisedAt = acq[p].wakeAt =>
                      acq[p].raisedAt <= ClaimedDeadline(p) + acq[p].wait_time

\* the same statement for the calls that pass no timeout or a positive one
C8_PositiveTimeouts ==
    \A p \in Procs :
        acq[p].arg # 0 =>
            /\ pc[p] \in {"sleeping", "timedout"} =>
                   acq[p].deadline = ClaimedDeadline(p)
            /\ pc[p] = "timedout" =>
                   /\ acq[p].raisedAt > ClaimedDeadline(p)
                   /\ acq[p].raisedAt = acq[p].wakeAt =>
                          acq[p].raisedAt <= ClaimedDeadline(p) + acq[p].wait_time

\* C10 (the claim as stated): for a client obtained through
\* get_pooled_client, pool.release is performed exactly once on every exit
\* path of the borrower, the borrower abandoned between acquisition and scope
\* entry included: once every borrower has finished, in_use is empty.
C10_AllReleased ==
    /\ \A p \in Procs : pc[p] = "exited" => relCalls[p] = 1
    /\ (\A p \in Procs : pc[p] = "idle") => in_use = {}

\* the same statement for the borrowers that entered the wrapper
C10_EnteredReleased ==
    /\ \A p \in Procs : pc[p] = "exited" => relCalls[p] = 1
    /\ (abandoned = {} /\ \A p \in Procs : pc[p] = "idle") => in_use = {}

\* the runs that hold the wrapper: started and not yet ended
RunsInProgress == {r \in Runs : runs[r].pc = "step"}

\* C9 (the claim as stated): every pipeline run that obtained a handle
\* releases it exactly once however it ends (completion, exception inside the
\* run, cancellation): its wrapper is exited once and the manager's usage is
\* released once, so the usage count equals the number of runs in progress.
C9_ReleasedExactlyOnce ==
    /\ usage_count = Cardinality(RunsInProgress)
    /\ \A r \in Runs :
           (runs[r].pc \in {"done", "aborted", "cancelled"} /\ runs[r].wasEntered)
               => (runs[r].exits = 1 /\ runs[r].releases = 1)

\* what the code does give: the wrapper of a run that entered it is exited
\* exactly once on every exit path
C9_WrapperExitedOnce ==
    \A r \in Runs :
        (runs[r].pc \in {"done", "aborted", "cancelled"} /\ runs[r].wasEntered)
            => runs[r].exits = 1

\* C11 (the claim as stated): a client is never held by two pipeline runs at
\* the same time: a run that obtains its handle gets a client that no run in
\* progress holds, whether the server lists are the same or not.
C11_NeverShared ==
    [][\A r \in Runs :
           (runs[r].pc = "idle" /\ runs'[r].client # NoHandle) =>
               \A q \in Runs \ {r} :
                   runs[q].pc = "step" => runs[q].client # runs'[r].client]_vars

\* what the code does give: runs in progress with different server lists hold
\* different clients
C11_DistinctListsDistinctClients ==
    \A r, q \in RunsInProgress :
        runs[r].servers # runs[q].servers => runs[r].client # runs[q].client

\* the requests that passed the lookup of get_pooled_client
ResolvedReqs == {q \in Reqs : reqs[q].pc \in {"holding", "waiting", "error"}}

\* C12: all requests for the same server-set key resolve to the same pool
\* instance, and the first requests for a key create exactly one pool: no
\* two pool objects were built for one key and the registry holds the pool
\* every request of the key got.
C12_OnePoolPerKey ==
    /\ \A q1, q2 \in ResolvedReqs :
           reqs[q1].key = reqs[q2].key => reqs[q1].pool = reqs[q2].pool
    /\ \A i, j \in 1..Len(poolObjs) :
           poolObjs[i].key = poolObjs[j].key => i = j
    /\ \A q \in ResolvedReqs :
           /\ reqs[q].key \in DOMAIN registry
           /\ registry[reqs[q].key] = reqs[q].pool

\* C12 witness: two requests for the same key overlap, one holds a client of
\* the pool and the other waits on the same pool; one pool was built for it.
C12_Witness ==
    \E q1, q2 \in Reqs :
        /\ reqs[q1].pc = "holding"
        /\ reqs[q2].pc = "waiting"
        /\ reqs[q1].key = reqs[q2].key
        /\ reqs[q1].pool = reqs[q2].pool
        /\ reqs[q1].first
        /\ ~reqs[q2].first
        /\ Cardinality({i \in 1..Len(poolObjs) :
                            poolObjs[i].key = reqs[q1].key}) = 1

\* the requests that computed their key
KeyedReqs == {q \in Reqs : reqs[q].pc # "idle"}

\* C13 (the claim as stated): the key depends only on the set of server
\* names: two lists have the same key exactly when they denote the same set
\* of names, and requests get the same pool exactly when they do.
C13_KeyOfSet ==
    /\ \A q1, q2 \in KeyedReqs :
           (SeqSet(reqs[q1].servers) = SeqSet(reqs[q2].servers))
               <=> (reqs[q1].key = reqs[q2].key)
    /\ \A q1, q2 \in ResolvedReqs :
           (SeqSet(reqs[q1].servers) = SeqSet(reqs[q2].servers))
               <=> (reqs[q1].pool = reqs[q2].pool)

\* a list without a repeated name, of names that hold no comma
PlainList(l) ==
    /\ \A i, j \in 1..Len(l) : l[i] = l[j] => i = j
    /\ \A i \in 1..Len(l) : \A j \in 1..Len(l[i]) : l[i][j] # Comma

\* what the code does give: the statement for the lists that repeat no name
\* and whose names hold no comma
C13_KeyOfPlainLists ==
    /\ \A q1, q2 \in KeyedReqs :
           (PlainList(reqs[q1].servers) /\ PlainList(reqs[q2].servers)) =>
               ((SeqSet(reqs[q1].servers) = SeqSet(reqs[q2].servers))
                    <=> (reqs[q1].key = reqs[q2].key))
    /\ \A q1, q2 \in ResolvedReqs :
           (PlainList(reqs[q1].servers) /\ PlainList(reqs[q2].servers)) =>
               ((SeqSet(reqs[q1].servers) = SeqSet(reqs[q2].servers))
                    <=> (reqs[q1].pool = reqs[q2].pool))

\* some member of the list has no configuration
Unresolvable(l) == \E i \in 1..Len(l) : ~HasConfig(l[i])

\* C14 (the claim as stated): the first request for a key resolves every
\* member server: when any member has no configuration the request fails
\* with the spec-not-found error and built no pool and no client, so every
\* pool was built for a list whose members all have a configuration.
C14_EveryMemberResolved ==
    /\ \A q \in KeyedReqs :
           (reqs[q].first /\ Unresolvable(reqs[q].servers)) =>
               (reqs[q].pc = "failed" /\ reqs[q].pool = 0 /\ reqs[q].client = 0)
    /\ \A i \in 1..Len(poolObjs) : ~Unresolvable(poolObjs[i].servers)

\* what the code does give: the same for the first server of the list only
C14_FirstMemberResolved ==
    /\ \A q \in KeyedReqs :
           (reqs[q].first /\ ~HasConfig(FirstServer(reqs[q].servers))) =>
               (reqs[q].pc = "failed" /\ reqs[q].pool = 0 /\ reqs[q].client = 0)
    /\ \A q \in KeyedReqs :
           reqs[q].pc = "failed" => ~HasConfig(FirstServer(reqs[q].servers))
    /\ \A i \in 1..Len(poolObjs) :
           /\ poolObjs[i].config = FirstServer(poolObjs[i].servers)
           /\ HasConfig(poolObjs[i].config)

\* the runs whose inputs and step locals are there: in a step, or completed
LiveRuns == {r \in Runs : runs[r].pc \in {"step", "done"}}

\* the steps of a run whose agent call was made and has not been recorded
InProgress(rec) == SeqSet(rec.calls) \ SeqSet(rec.written)

\* C15: within one run the agent calls happen in the declared order
\* cloudformation, diagram, cost: a call starts only after every earlier step
\* has been recorded, at most one step is in progress, and the returned result
\* holds one record per step, written in that order.
C15_DeclaredOrder ==
    \A r \in Runs :
        /\ \A i, j \in 1..Len(runs[r].calls) :
               i < j => runs[r].calls[i] < runs[r].calls[j]
        /\ runs[r].pc = "step" =>
               /\ InProgress(runs[r]) = {runs[r].step}
               /\ \A k \in 1..3 :
                      k < runs[r].step <=> runs[r].results[k] # "none"
               /\ runs[r].written = [k \in 1..(runs[r].step - 1) |-> k]
        /\ runs[r].pc \in {"done", "aborted"} =>
               /\ runs[r].written = <<1, 2, 3>>
               /\ \A k \in 1..3 : runs[r].results[k] # "none"
        /\ runs[r].pc = "done" => InProgress(runs[r]) = {}

\* C15 witness: a completed run that made all three agent calls.
C15_Witness ==
    \E r \in Runs :
        /\ runs[r].pc = "done"
        /\ runs[r].calls = <<1, 2, 3>>
        /\ runs[r].results = <<"ok", "ok", "ok">>

\* the placeholder record of a step that was not run
Placeholder ==
    [content |-> FALSE, success |-> FALSE, skipped |-> TRUE, error |-> FALSE]

\* the flag that enables step k of a run
Requested(rec, k) ==
    IF k = 2 THEN rec.diagram ELSE IF k = 3 THEN rec.cost ELSE TRUE

\* C16: a step that is disabled for the run is never called and its record is
\* the placeholder (success false, skipped true, no error); the record of a
\* step that ran, failed or not, is not skipped, so the two differ.
C16_DisabledStepSkipped ==
    \A r \in LiveRuns : \A k \in 1..3 :
        /\ ~Requested(runs[r], k) =>
               /\ k \notin SeqSet(runs[r].calls)
               /\ k \in SeqSet(runs[r].written) =>
                      Record(runs[r].results[k]) = Placeholder
        /\ (k \in SeqSet(runs[r].calls) /\ k \in SeqSet(runs[r].written)) =>
               /\ ~Record(runs[r].results[k]).skipped
               /\ Record(runs[r].results[k]) # Placeholder
               /\ ~Record(runs[r].results[k]).success =>
                      Record(runs[r].results[k]).error

\* C16 witness: a completed run with the diagram step disabled and skipped
\* and the cost step run and failed.
C16_Witness ==
    \E r \in Runs :
        /\ runs[r].pc = "done"
        /\ ~runs[r].diagram
        /\ runs[r].cost
        /\ runs[r].calls = <<1, 3>>
        /\ runs[r].results = <<"ok", "skipped", "failed">>

\* C17 (the claim as stated): when the agent call of step 1 fails, steps 2
\* and 3, if enabled, still make their agent calls, and their records carry
\* the outcome of their own execution, not the skipped placeholder.
C17_LaterStepsStillRun ==
    \A r \in Runs :
        (runs[r].pc = "done" /\ runs[r].results[1] = "failed") =>
            \A k \in 2..3 :
                Requested(runs[r], k) =>
                    /\ k \in SeqSet(runs[r].calls)
                    /\ ~Record(runs[r].results[k]).skipped

\* what the code does give: after a failed step 1 the cost step still runs
\* when it is enabled, and the diagram step when it is enabled and the caller
\* gave an existing template
C17_CostStillRuns ==
    \A r \in Runs :
        (runs[r].pc = "done" /\ runs[r].results[1] = "failed") =>
            /\ runs[r].cost =>
                   (3 \in SeqSet(runs[r].calls)
                        /\ ~Record(runs[r].results[3]).skipped)
            /\ (runs[r].diagram /\ runs[r].existing) =>
                   (2 \in SeqSet(runs[r].calls)
                        /\ ~Record(runs[r].results[2]).skipped)
            /\ (runs[r].diagram /\ ~runs[r].existing) =>
                   (2 \notin SeqSet(runs[r].calls)
                        /\ Record(runs[r].results[2]) = Placeholder)

\* the name of the output of step k
StepName(k) == IF k = 1 THEN "cloudformation" ELSE "diagram"

\* the steps before step k of a run that were called and succeeded
Succeeded(rec, k) ==
    {j \in 1..(k - 1) : j \in SeqSet(rec.calls)
                           /\ Record(rec.results[j]).success}

\* C18 (the claim as stated): the context of a step holds the digests of
\* exactly the earlier steps of the run that executed and succeeded.
C18_DigestsOfSucceededSteps ==
    \A r \in LiveRuns : \A k \in 2..3 :
        k \in SeqSet(runs[r].calls) =>
            runs[r].ctx[k] = {StepName(j) : j \in Succeeded(runs[r], k)}

\* C18 (amended): the context of a step holds, for the template and (cost
\* step only) for the diagram, the digest of the artifact the caller gave
\* when there is one, and else the digest of the earlier step's output when
\* that step executed and succeeded with a non-empty content; a failed or a
\* skipped step never contributes a digest.
C18_DigestSources ==
    \A r \in LiveRuns : \A k \in 2..3 :
        k \in SeqSet(runs[r].calls) =>
            /\ "existing_cloudformation_template" \in runs[r].ctx[k]
                   <=> runs[r].existing
            /\ "cloudformation" \in runs[r].ctx[k]
                   <=> (~runs[r].existing /\ runs[r].results[1] = "ok")
            /\ "existing_diagram" \in runs[r].ctx[k]
                   <=> (k = 3 /\ runs[r].existing_diagram)
            /\ "diagram" \in runs[r].ctx[k]
                   <=> /\ k = 3
                       /\ ~runs[r].existing_diagram
                       /\ 2 \in SeqSet(runs[r].calls)
                       /\ runs[r].results[2] = "ok"
            /\ \A j \in 1..(k - 1) :
                   runs[r].results[j] \in {"failed", "skipped"} =>
                       StepName(j) \notin runs[r].ctx[k]

\* C18 witness: only steps 1 and 3 enabled, no existing artifact: step 2 is
\* skipped and the cost step got the digest of step 1 alone.
C18_Witness ==
    \E r \in Runs :
        /\ runs[r].pc = "done"
        /\ ~runs[r].diagram
        /\ runs[r].cost
        /\ ~runs[r].existing
        /\ ~runs[r].existing_diagram
        /\ runs[r].results[1] = "ok"
        /\ runs[r].results[2] = "skipped"
        /\ runs[r].ctx[3] = {"cloudformation"}

\* the record of a step in a run-level failure
FailedWithError ==
    [content |-> FALSE, success |-> FALSE, skipped |-> FALSE, error |-> TRUE]

\* C19: a run that fails to obtain the handle or to list its tools is
\* aborted as a whole: it made no agent call and returns the run-level
\* failure, every step marked failed with the error.
C19_AbortedAsAWhole ==
    [][\A r \in Runs :
           (runs[r].pc = "idle" /\ runs'[r].pc \notin {"idle", "step"}) =>
               /\ runs'[r].pc = "aborted"
               /\ runs'[r].calls = <<>>
               /\ \A k \in 1..3 :
                      Record(runs'[r].results[k]) = FailedWithError]_vars

\* C19 witness: a run whose list_tools_sync failed: the wrapper was entered
\* and exited, no agent call was made, the run-level failure is returned.
C19_Witness ==
    \E r \in Runs :
        /\ runs[r].pc = "aborted"
        /\ runs[r].wasEntered
        /\ runs[r].exits = 1
        /\ runs[r].calls = <<>>
        /\ runs[r].results = ErrorResults

\* C20 (the claim as stated): once the run is in its steps no failure turns
\* into a run-level failure: a step record written as successful stays in the
\* result, and the run ends with the records of its steps.
C20_NoRunLevelFailure ==
    [][\A r \in Runs :
           runs[r].pc = "step" =>
               /\ runs'[r].pc # "aborted"
               /\ \A k \in 1..3 :
                      Record(runs[r].results[k]).success =>
                          Record(runs'[r].results[k]).success]_vars

\* what the code does give: a failure of the agent call itself is recorded in
\* the record of its step and the run goes on
C20_AgentFailureRecorded ==
    \A r \in Runs : \A k \in 1..3 :
        (runs[r].pc \in {"step", "done"} /\ runs[r].results[k] = "failed") =>
            /\ k \in SeqSet(runs[r].calls)
            /\ Record(runs[r].results[k]).error
            /\ \A j \in 1..3 : runs[r].results[j] # "error"

\* a step of the run threw: its agent call raised and was recorded as failed
StepThrew(rec) == \E k \in DOMAIN rec.results : rec.results[k] = "failed"

\* C21 (the claim as stated): the client of a run in which a step threw is
\* discarded when the run releases it, so no run that starts later gets the
\* client of a completed run in which a step threw.
C21_ThrownHandleNotReused ==
    [][\A r, q \in Runs :
           (/\ runs[q].pc = "done"
            /\ StepThrew(runs[q])
            /\ runs[r].pc = "idle"
            /\ runs'[r].pc = "step") =>
               runs'[r].client # runs[q].client]_vars

\* the largest size any digest code cuts a text to (line 2233:
\* content[:1000])
DigestBound == 1000

\* C22 (the claim as stated): every digest handed to a later step is below a
\* fixed bound, whatever the size of the output, the length of its names and
\* the number of its resources.
C22_DigestBounded ==
    \A c \in DOMAIN digest : digest[c] < DigestBound

\* what the code does give: the number of listed resources and of listed
\* components is cut, the names are not, and the cost digest has a line for
\* every resource: the sizes grow with the names and the resources
C22_DigestGrows ==
    /\ "diagram" \in DOMAIN digest =>
           /\ digest["diagram"] >= Listed(output.count) * output.len
           /\ digest["diagram"] <= 100 + ResourceLimit * (output.len + 12)
    /\ "cost" \in DOMAIN digest =>
           digest["cost"] >= output.count * output.len
    /\ "summary" \in DOMAIN digest =>
           /\ digest["summary"] >= Min(output.count, ComponentLimit) * output.len
           /\ digest["summary"] <= 400 + ComponentLimit * (output.len + 2)

\* C23 (the claim as stated): a client is created and connected while the
\* lock of the pool is not held, so that another acquirer can take the lock
\* and get an available client meanwhile.
C23_CreateOutsideLock ==
    \A p \in Procs : pc[p] = "creating" => lock = Unlocked

\* what the code does: the creating caller holds the lock from the check of
\* the deque to the return, and while it does no other caller gets a client
\* or releases one
C23_CreateUnderLock ==
    [][\A p \in Procs :
           pc[p] = "creating" =>
               /\ lock = p
               /\ pool' = pool
               /\ \A q \in Procs \ {p} : held'[q] = held[q]]_vars

ReleasedToWaiter == lastRel.st = "released" /\ lastRel.waiting # {}

\* the acquire that follows such a release is a reuse of the released client
ReusedReleased ==
    (lastRel.st = "reacquired" /\ lastRel.waiting # {}) =>
        /\ lastRel.got = lastRel.h
        /\ lastRel.dcreated = 0
        /\ lastRel.dreused = 1

\* C25 (the claim as stated): when a caller waits on a pool at capacity and
\* a client is released without force_recreate before its deadline, a
\* waiting caller ends up with the released client, as a reuse.
C25_WaiterGetsReleased ==
    /\ ReleasedToWaiter ~> (lastRel.st = "reacquired")
    /\ [](ReusedReleased)
    /\ []((lastRel.st = "reacquired" /\ lastRel.waiting # {}) =>
              lastRel.by \in lastRel.waiting)

\* C25 (amended): after such a release some acquire call ends up with the
\* released client as a reuse: a waiting caller when it wakes, unless a call
\* that arrives before takes the client first (the pool gives waiters no
\* priority, and the waiter may then time out).  With capacity 2 and three
\* acquire calls in all, the third, waiting call gets the released client
\* with created = 2 and reused = 1.
C25_ReleasedIsReused ==
    /\ ReleasedToWaiter ~> (lastRel.st = "reacquired")
    /\ [](ReusedReleased)
    /\ []((lastRel.st = "reacquired" /\ lastRel.waiting # {}
             /\ total_requests = PoolSize + 1) =>
              /\ lastRel.by \in lastRel.waiting
              /\ created_count = PoolSize
              /\ reused_count = 1)

\* C25 witness: capacity + 1 acquire calls, the last one waited, a client was
\* released and the waiting caller holds it: created = capacity, reused = 1.
C25_Witness ==
    /\ total_requests = PoolSize + 1
    /\ lastRel.st = "reacquired"
    /\ lastRel.by \in lastRel.waiting
    /\ lastRel.got = lastRel.h
    /\ created_count = PoolSize
    /\ reused_count = 1
    /\ pc[lastRel.by] = "holding"
    /\ held[lastRel.by] = lastRel.h

\* C26: after any sequence of add_to_conversation_history calls on a session
\* that exists, its history holds at most 20 exchanges: the 20 added last (all
\* of them while fewer were added), in the order they were added.
C26_LastTwenty ==
    \A id \in SessionIds :
        sessions[id].present =>
            LET history == sessions[id].conversation_history
                added == sessions[id].added
            IN /\ Len(history) = Min(added, HistoryLimit)
               /\ \A i \in 1..Len(history) :
                      history[i] = added - Len(history) + i - 1

\* C26 witness: exchanges 0..24 were added: 20 are kept, the first is
\* exchange 5.
C26_Witness ==
    \E id \in SessionIds :
        /\ sessions[id].present
        /\ sessions[id].added = 25
        /\ Len(sessions[id].conversation_history) = 20
        /\ sessions[id].conversation_history[1] = 5

\* C27: when creating or entering a new client fails, the call of acquire
\* raises in its first pass (it does not sleep or try again), and pool,
\* in_use and created_count are what they were when the call began.
C27_FailedCreationLeavesPool ==
    [][\A p \in Procs :
           (pc'[p] = "failed" /\ pc[p] # "failed") =>
               /\ pc[p] = "idle"
               /\ total_requests' = total_requests + 1
               /\ pool' = pool
               /\ in_use' = in_use
               /\ created_count' = created_count
               /\ held'[p] = held[p]]_vars

\* C27 witness: a creation failed in a pool that has a client in use and
\* room for another.
C27_Witness ==
    \E p \in Procs :
        /\ pc[p] = "failed"
        /\ anyFail
        /\ in_use # {}
        /\ created_count < PoolSize

\* C28: releasing a client that is not in in_use changes nothing in the
\* pool: a caller whose client was already released by someone else leaves
\* every field of the pool as it was, and only a client that was in in_use is
\* ever put back or exited.
C28_NotInUseReleaseIgnored ==
    [][/\ \A p \in Procs :
              (pc[p] = "holding" /\ pc'[p] = "idle" /\ held[p] \notin in_use)
                  => UNCHANGED poolVars
       /\ Len(pool') > Len(pool) => pool'[Len(pool')] \in in_use
       /\ \A client \in exited' \ exited : client \in in_use]_vars

\* C28 witness: release was called on a pool that never created a client
\* (the client was not lent by it), and the pool is as it was constructed.
C28_Witness ==
    /\ anyRelease
    /\ nextId = 1
    /\ pool = <<>>
    /\ in_use = {}
    /\ created_count = 0
    /\ reused_count = 0
    /\ exited = {}

\* C29: the pool registered for a key is configured the same way whatever
\* order the first caller listed the servers in: for every pool a registry
\* built, a registry whose first request lists the same names in another
\* order builds a pool with the same server configuration.
C29_SameConfigAnyOrder ==
    \A i \in 1..Len(poolObjs) :
        \A mcp_servers \in RequestLists :
            (/\ Sorted(mcp_servers) = Sorted(poolObjs[i].servers)
             /\ HasConfig(FirstServer(mcp_servers)))
                => NewPool(server_key(mcp_servers), mcp_servers).config
                       = poolObjs[i].config

\* C30: after cleanup_all has returned and the borrowers that were active
\* have left their wrappers, the registry is empty and no client the pool
\* created is still connected.
C30_CleanupDisconnectsAll ==
    (/\ cleaned
     /\ \A p \in Procs : pc[p] \notin {"holding", "scope"})
        => /\ pools = {}
           /\ \A client \in entered : ~Connected(client)

====
